---- MODULE Spec2Model ----
(***************************************************************************)
(* jobhog (src/jobhog.c): a jobserver client that drains the tokens of the *)
(* orchestrator's channel, rewrites the ### marker of the target command,  *)
(* execs into the command and leaves a forked Watcher behind that returns  *)
(* the tokens once the auxiliary pipe's write end has been released.       *)
(*                                                                         *)
(* Strings are sequences of one-character strings; a C string's            *)
(* terminator is written NUL where the code's memory operations see it.    *)
(***************************************************************************)
EXTENDS Integers, Sequences, FiniteSets, TLC

(* ---- bounds of the model ---- *)
SmallLoad == 9          \* largest small channel load: one chunk and one token more
MaxClientOps == 1       \* operations of other clients on the channel
MaxForks == 1           \* forks inside the target command's process tree
MaxAuxWrites == 1       \* data bytes the target tree writes into the auxiliary pipe
MaxShort == 1           \* short reads / short writes per run
MaxFd == 7              \* size of a process's descriptor table
DrainSpread == 2        \* loads this far below and above the ceiling's window

(* ---- program constants ---- *)
TokenCeiling == 500
ChunkSize == 8
AssertLimit == 999
BufSize == 4
MarkerLen == 3
EX_OK == 0
EX_USAGE == 64
EX_OSERR == 71

NUL == "NUL"
Min(a, b) == IF a < b THEN a ELSE b

(* ---- C string helpers ---- *)
MatchAt(s, i, pat) ==
    /\ i >= 1
    /\ i + Len(pat) - 1 <= Len(s)
    /\ \A k \in 1..Len(pat) : s[i + k - 1] = pat[k]

\* strstr: index of the first occurrence of pat in s, 0 for NULL
strstr(s, pat) ==
    IF \E i \in 1..Len(s) : MatchAt(s, i, pat)
    THEN CHOOSE i \in 1..Len(s) :
            /\ MatchAt(s, i, pat)
            /\ \A j \in 1..(i - 1) : ~MatchAt(s, j, pat)
    ELSE 0

\* strchr: index of the first occurrence of character c at or after from, 0 for NULL
strchr(s, from, c) ==
    IF \E i \in from..Len(s) : s[i] = c
    THEN CHOOSE i \in from..Len(s) :
            /\ s[i] = c
            /\ \A j \in from..(i - 1) : s[j] # c
    ELSE 0

DigitChars == <<"0", "1", "2", "3", "4", "5", "6", "7", "8", "9">>
IsDigit(c) == \E d \in 1..10 : DigitChars[d] = c
DigitVal(c) == (CHOOSE d \in 1..10 : DigitChars[d] = c) - 1
IsSpace(c) == c = " "

RECURSIVE SkipSpace(_, _)
SkipSpace(s, i) ==
    IF i <= Len(s) /\ IsSpace(s[i]) THEN SkipSpace(s, i + 1) ELSE i

RECURSIVE DigitsEnd(_, _)
DigitsEnd(s, i) ==
    IF i <= Len(s) /\ IsDigit(s[i]) THEN DigitsEnd(s, i + 1) ELSE i

RECURSIVE DigitsValue(_, _, _, _)
DigitsValue(s, i, e, acc) ==
    IF i >= e THEN acc ELSE DigitsValue(s, i + 1, e, acc * 10 + DigitVal(s[i]))

\* one %d conversion of sscanf starting at index i:
\* [ok, val, next]; leading white space is skipped, a sign is accepted
ScanInt(s, i) ==
    LET j == SkipSpace(s, i)
        neg == j <= Len(s) /\ s[j] = "-"
        sgn == j <= Len(s) /\ (s[j] = "-" \/ s[j] = "+")
        d == IF sgn THEN j + 1 ELSE j
        e == DigitsEnd(s, d)
    IN  IF e > d
        THEN [ok |-> TRUE,
              val |-> IF neg THEN 0 - DigitsValue(s, d, e, 0) ELSE DigitsValue(s, d, e, 0),
              next |-> e]
        ELSE [ok |-> FALSE, val |-> 0, next |-> i]

\* sscanf(s + i - 1, "=%d,%d", &rfd, &wfd): the number of conversions made
\* and the values stored; a variable that was not converted keeps old.
sscanf_pair(s, i, oldr, oldw) ==
    IF ~(i <= Len(s) /\ s[i] = "=")
    THEN [n |-> 0, r |-> oldr, w |-> oldw]
    ELSE LET a == ScanInt(s, i + 1)
         IN  IF ~a.ok
             THEN [n |-> 0, r |-> oldr, w |-> oldw]
             ELSE IF ~(a.next <= Len(s) /\ s[a.next] = ",")
                  THEN [n |-> 1, r |-> a.val, w |-> oldw]
                  ELSE LET b == ScanInt(s, a.next + 1)
                       IN  IF b.ok
                           THEN [n |-> 2, r |-> a.val, w |-> b.val]
                           ELSE [n |-> 1, r |-> a.val, w |-> oldw]

AuthOpt == <<"-", "-", "j", "o", "b", "s", "e", "r", "v", "e", "r", "-", "a", "u", "t", "h", "=">>
FdsOpt == <<"-", "-", "j", "o", "b", "s", "e", "r", "v", "e", "r", "-", "f", "d", "s", "=">>

\* parse_env: e is the environment entry [set, val]; the result is the
\* return value and the values of the globals rfd and wfd afterwards.
parse_env(e, oldr, oldw) ==
    IF ~e.set
    THEN [ret |-> -1, rfd |-> oldr, wfd |-> oldw]
    ELSE LET s1 == strstr(e.val, AuthOpt)
             s == IF s1 = 0 THEN strstr(e.val, FdsOpt) ELSE s1
         IN  IF s = 0
             THEN [ret |-> -1, rfd |-> oldr, wfd |-> oldw]
             ELSE LET q == strchr(e.val, s, "=")
                      sc == sscanf_pair(e.val, q, oldr, oldw)
                  IN  [ret |-> IF sc.n = 2 THEN 0 ELSE -1, rfd |-> sc.r, wfd |-> sc.w]


(* ---- the placeholder ---- *)
Marker == <<"#", "#", "#">>

\* find_hashes called on &argv[1]: the command name is scanned too
find_hashes_cmd(av, from) ==
    IF \E i \in (from - 1)..Len(av) : strstr(av[i], Marker) # 0
    THEN LET i == CHOOSE i \in (from - 1)..Len(av) :
                     /\ strstr(av[i], Marker) # 0
                     /\ \A j \in (from - 1)..(i - 1) : strstr(av[j], Marker) = 0
         IN  <<i, strstr(av[i], Marker)>>
    ELSE <<0, 0>>

\* find_hashes(&argv[from]): <<i, k>>, the argument and the offset of the
\* first ### in the first argument that has one; <<0, 0>> for NULL
find_hashes(av, from) ==
    IF \E i \in from..Len(av) : strstr(av[i], Marker) # 0
    THEN LET i == CHOOSE i \in from..Len(av) :
                     /\ strstr(av[i], Marker) # 0
                     /\ \A j \in from..(i - 1) : strstr(av[j], Marker) = 0
         IN  <<i, strstr(av[i], Marker)>>
    ELSE <<0, 0>>

RECURSIVE Decimal(_)
Decimal(n) ==
    IF n < 10 THEN <<DigitChars[n + 1]>>
    ELSE Decimal(n \div 10) \o <<DigitChars[(n % 10) + 1]>>

\* snprintf(buf, size, "%u", n): p is the length of the full decimal text,
\* buf holds at most size - 1 of its characters
snprintf_u(size, n) ==
    LET d == Decimal(n)
    IN  [p |-> Len(d), buf |-> SubSeq(d, 1, Min(Len(d), size - 1))]

\* the bytes of memory from the start of a string to its terminator
CStr(mem) == SubSeq(mem, 1, strchr(mem, 1, NUL) - 1)

\* memmove moves len - 4 bytes: the terminator stays where it was
Overwrite_short(arg, k, buf, p, len) ==
    LET mem == arg \o <<NUL>>
        m1 == [x \in 1..Len(mem) |->
                 IF x >= k /\ x < k + p THEN buf[x - k + 1] ELSE mem[x]]
        m2 == [x \in 1..Len(mem) |->
                 IF x >= k + p /\ x < k + p + (len - MarkerLen - 1)
                 THEN m1[x - p + MarkerLen] ELSE m1[x]]
    IN  CStr(m2)

\* memcpy(h, buf, p) followed by memmove(h + p, h + 3, len - 3) on the
\* memory of one argument (its characters and the terminator), h at offset k
Overwrite(arg, k, buf, p, len) ==
    LET mem == arg \o <<NUL>>
        m1 == [x \in 1..Len(mem) |->
                 IF x >= k /\ x < k + p THEN buf[x - k + 1] ELSE mem[x]]
        m2 == [x \in 1..Len(mem) |->
                 IF x >= k + p /\ x < k + p + (len - MarkerLen)
                 THEN m1[x - p + MarkerLen] ELSE m1[x]]
    IN  CStr(m2)

(* ---- inputs ---- *)
Prog == <<"j">>
Cmd == <<"m">>
ArgVectors ==
    { <<Prog>>,
      <<Prog, Cmd>>,
      <<Prog, <<"m", "#", "#", "#">>, <<"-", "j">>>>,
      <<Prog, Cmd, <<"-", "j", "#", "#", "#">>>>,
      <<Prog, Cmd, <<"-", "v">>, <<"a", "#", "#", "#", "#", "b">>, Marker>> }

Absent == [set |-> FALSE, val |-> <<>>]
Present(v) == [set |-> TRUE, val |-> v]
EnvValues ==
    { Absent,
      Present(<<"-", "j", "4">>),
      Present(AuthOpt \o <<"a", "b", "c">>),
      Present(AuthOpt \o <<"3">>),
      Present(AuthOpt \o <<"3", ",", "x">>),
      Present(AuthOpt \o <<"3", ",", "4">>),
      Present(<<"-", "j", "4", " ">> \o FdsOpt \o <<"3", ",", "4">>),
      Present(AuthOpt \o <<"3", ",", "6">>) }

\* channel loads of the whole-program specification: empty, one token, and
\* more than a chunk (another client's read brings it down to a full chunk)
ChannelLoads == {0, 1, SmallLoad}

\* channel loads of the drain specification: around the ceiling as well
DrainLoads ==
    (0..SmallLoad) \cup
    ((TokenCeiling - DrainSpread)..(TokenCeiling + ChunkSize + DrainSpread))
    \cup {AssertLimit + ChunkSize}

\* channel loads of the launch specification: small ones, the ceiling, one
\* chunk more, and more than the assertion of line 190 allows
LaunchLoads ==
    (0..SmallLoad) \cup
    {TokenCeiling, TokenCeiling + ChunkSize, AssertLimit + ChunkSize}

Fds == 0..MaxFd
\* the descriptor table the orchestrator starts the tool with
StartTable(open) ==
    [f \in Fds |-> IF f <= 2 THEN "tty"
                   ELSE IF open /\ f = 3 THEN "chanR"
                   ELSE IF open /\ f = 4 THEN "chanW"
                   ELSE "closed"]
NoTable == [f \in Fds |-> "closed"]

VARIABLES
    input,          \* what the tool was started with: argv, env, fds, load
    argv,           \* the argument vector (rewritten in place)
    env,            \* MAKEFLAGS in the environment
    rfd, wfd,       \* the globals of line 43
    fds,            \* descriptor table of the launching process
    pc,             \* position of the launching process
    h,              \* main's h: <<argument, offset>>
    tokens,         \* get_tokens' tokens
    fd,             \* get_tokens' fd
    mtokens,        \* main's tokens
    owed,           \* put_tokens' tokens in the launching process
    errno,          \* errno of the launching process
    pipefd,         \* create_child's pipefd
    exitcode,       \* exit status of the launching process
    wpc,            \* position of the Watcher
    wfds,           \* descriptor table of the Watcher
    wowed,          \* put_tokens' tokens in the Watcher
    werrno,         \* errno of the Watcher
    wexit,          \* exit status of the Watcher
    chan,           \* bytes queued in the channel
    nonblock,       \* O_NONBLOCK of the inherited read end's file description
    auxData,        \* bytes queued in the auxiliary pipe
    holders,        \* references to the auxiliary write end in the target's tree
    mainWritten,    \* bytes the launching process wrote to the write endpoint
    watcherWritten, \* bytes the Watcher wrote to the write endpoint
    nreads,         \* read calls of the drain loop
    drained,        \* bytes the drain loop removed from the channel
    hard,           \* the processes whose put_tokens ended on a failed write
    nshort, clientOps, forks, auxWrites   \* budgets of the environment

vars == <<input, argv, env, rfd, wfd, fds, pc, h, tokens, fd, mtokens, owed,
          errno, pipefd, exitcode, wpc, wfds, wowed, werrno, wexit, chan,
          nonblock, auxData, holders, mainWritten, watcherWritten, nreads,
          drained, hard, nshort, clientOps, forks, auxWrites>>

mainVars == <<argv, env, rfd, wfd, fds, pc, h, tokens, fd, mtokens, owed,
              errno, pipefd, exitcode, nreads, drained>>
watcherVars == <<wpc, wfds, wowed, werrno, wexit>>
envVars == <<holders, forks, auxWrites, clientOps>>

InitWith(loads) ==
    /\ \E av \in ArgVectors, e \in EnvValues, open \in BOOLEAN, load \in loads :
          /\ input = [argv |-> av, env |-> e, fds |-> StartTable(open), load |-> load]
          /\ argv = av
          /\ env = e
          /\ fds = StartTable(open)
          /\ chan = load
    /\ nonblock \in BOOLEAN
    /\ rfd = -1 /\ wfd = -1
    /\ pc = "main"
    /\ h = <<0, 0>>
    /\ tokens = 0 /\ fd = -1 /\ mtokens = 0 /\ owed = 0
    /\ errno = "none"
    /\ pipefd = <<-1, -1>>
    /\ exitcode = -1
    /\ wpc = "none" /\ wfds = NoTable /\ wowed = 0 /\ werrno = "none" /\ wexit = -1
    /\ auxData = 0 /\ holders = 0
    /\ mainWritten = 0 /\ watcherWritten = 0
    /\ nreads = 0 /\ drained = 0
    /\ hard = {}
    /\ nshort = 0 /\ clientOps = 0 /\ forks = 0 /\ auxWrites = 0

Init == InitWith(ChannelLoads)
DrainInit == InitWith(DrainLoads)
LaunchInit == InitWith(LaunchLoads)


(* ---- descriptors ---- *)
ObjAt(tab, f) == IF f \in Fds THEN tab[f] ELSE "closed"
Close(tab, f) == IF f \in Fds THEN [tab EXCEPT ![f] = "closed"] ELSE tab
FreeFds(tab) == {f \in Fds : tab[f] = "closed"}
LowestFree(tab) == CHOOSE f \in FreeFds(tab) : \A g \in FreeFds(tab) : f <= g
Refs(tab, obj) == Cardinality({f \in Fds : tab[f] = obj})

\* O_NONBLOCK of the open file description behind a descriptor: the
\* inherited read end has the orchestrator's setting, a description opened
\* by line 140 has it set
IsNonblock(obj) == obj = "reopen" \/ (obj = "chanR" /\ nonblock)
IsReadEnd(obj) == obj = "chanR" \/ obj = "reopen"

MainAlive == pc \notin {"exit", "target"}
WatcherAlive == wpc \notin {"none", "exited"}

\* open references to the auxiliary pipe's write end, over all processes
AuxWriters ==
    (IF MainAlive THEN Refs(fds, "auxW") ELSE 0)
    + (IF WatcherAlive THEN Refs(wfds, "auxW") ELSE 0)
    + holders

(* ---- main, lines 183-186 ---- *)
CheckArgs ==
    /\ pc = "main"
    /\ IF Len(argv) < 2
       THEN /\ pc' = "exit" /\ exitcode' = EX_USAGE /\ h' = h
       ELSE IF Len(argv) < 3 \/ find_hashes(argv, 3) = <<0, 0>>
            THEN /\ pc' = "exit" /\ exitcode' = EX_USAGE /\ h' = h
            ELSE /\ pc' = "parse" /\ exitcode' = exitcode
                 /\ h' = find_hashes(argv, 3)
    /\ UNCHANGED <<input, argv, env, rfd, wfd, fds, tokens, fd, mtokens, owed,
                   errno, pipefd, nreads, drained>>
    /\ UNCHANGED <<watcherVars, envVars, chan, nonblock, auxData,
                   mainWritten, watcherWritten, nshort, hard>>

\* get_tokens goes on whatever parse_env returned
ParseEnv_unchecked ==
    /\ pc = "parse"
    /\ LET r == parse_env(env, rfd, wfd)
       IN  /\ rfd' = r.rfd
           /\ wfd' = r.wfd
           /\ mtokens' = mtokens /\ pc' = "fcntl"
    /\ UNCHANGED <<input, argv, env, fds, h, tokens, fd, owed, errno, pipefd,
                   exitcode, nreads, drained>>
    /\ UNCHANGED <<watcherVars, envVars, chan, nonblock, auxData,
                   mainWritten, watcherWritten, nshort, hard>>

(* ---- get_tokens, lines 121-122 ---- *)
ParseEnv ==
    /\ pc = "parse"
    /\ LET r == parse_env(env, rfd, wfd)
       IN  /\ rfd' = r.rfd
           /\ wfd' = r.wfd
           /\ IF r.ret < 0
              THEN /\ mtokens' = 0 /\ pc' = "rewrite"
              ELSE /\ mtokens' = mtokens /\ pc' = "fcntl"
    /\ UNCHANGED <<input, argv, env, fds, h, tokens, fd, owed, errno, pipefd,
                   exitcode, nreads, drained>>
    /\ UNCHANGED <<watcherVars, envVars, chan, nonblock, auxData,
                   mainWritten, watcherWritten, nshort, hard>>

\* the inherited descriptor is used whatever its flags
NeedsReopen_never(obj) == FALSE

\* the test of line 126 on the flags fcntl returned for an open descriptor
NeedsReopen(obj) == ~IsNonblock(obj)

\* get_tokens sets O_NONBLOCK on the inherited descriptor with F_SETFL
Fcntl_setfl ==
    /\ pc = "fcntl"
    /\ IF ObjAt(fds, rfd) = "closed"
       THEN /\ errno' = "EBADF" /\ mtokens' = 0 /\ pc' = "rewrite" /\ fd' = fd
            /\ nonblock' = nonblock
       ELSE /\ fd' = rfd /\ pc' = "read" /\ UNCHANGED <<errno, mtokens>>
            /\ nonblock' = (nonblock \/ ObjAt(fds, rfd) = "chanR")
    /\ UNCHANGED <<input, argv, env, rfd, wfd, fds, h, tokens, owed, pipefd,
                   exitcode, nreads, drained>>
    /\ UNCHANGED <<watcherVars, envVars, chan, auxData,
                   mainWritten, watcherWritten, nshort, hard>>

(* ---- get_tokens, lines 123-145: fcntl and the choice of the reference ---- *)
Fcntl ==
    /\ pc = "fcntl"
    /\ IF ObjAt(fds, rfd) = "closed"
       THEN /\ errno' = "EBADF" /\ mtokens' = 0 /\ pc' = "rewrite" /\ fd' = fd
       ELSE IF NeedsReopen(ObjAt(fds, rfd))
            THEN /\ pc' = "open" /\ UNCHANGED <<errno, mtokens, fd>>
            ELSE /\ fd' = rfd /\ pc' = "read" /\ UNCHANGED <<errno, mtokens>>
    /\ UNCHANGED <<input, argv, env, rfd, wfd, fds, h, tokens, owed, pipefd,
                   exitcode, nreads, drained>>
    /\ UNCHANGED <<watcherVars, envVars, chan, nonblock, auxData,
                   mainWritten, watcherWritten, nshort, hard>>

\* what open("/proc/self/fd/N", O_RDONLY | O_NONBLOCK | O_CLOEXEC) refers to
Reopened(obj) == IF obj = "chanR" THEN "reopen" ELSE obj

(* ---- get_tokens, lines 138-142: open may fail ---- *)
Open ==
    /\ pc = "open"
    /\ \/ /\ FreeFds(fds) # {}
          /\ fd' = LowestFree(fds)
          /\ fds' = [fds EXCEPT ![LowestFree(fds)] = Reopened(ObjAt(fds, rfd))]
          /\ pc' = "read"
          /\ UNCHANGED <<errno, mtokens>>
       \/ /\ errno' = "EMFILE" /\ mtokens' = 0 /\ pc' = "rewrite"
          /\ UNCHANGED <<fd, fds>>
    /\ UNCHANGED <<input, argv, env, rfd, wfd, h, tokens, owed, pipefd,
                   exitcode, nreads, drained>>
    /\ UNCHANGED <<watcherVars, envVars, chan, nonblock, auxData,
                   mainWritten, watcherWritten, nshort, hard>>

\* results of read(fd, buf, count) on a channel reference with avail bytes
\* queued: a positive count, 0 for end-of-stream, -1 for EAGAIN; a read
\* of an empty channel through a blocking reference does not return
ReadResults(obj, avail, count, short) ==
    IF ~IsReadEnd(obj) THEN {-1}
    ELSE IF avail > 0
         THEN IF short THEN 1..Min(count, avail) ELSE {Min(count, avail)}
         ELSE IF IsNonblock(obj) THEN {-1, 0} ELSE {}

\* the loop has no sanity limit
KeepReading_always(t) == TRUE

\* the loop stops one chunk early
KeepReading_early(t) == t < TokenCeiling - ChunkSize

\* the loop reads once more at the ceiling
KeepReading_incl(t) == t <= TokenCeiling

\* the loop condition of line 147
KeepReading(t) == t < TokenCeiling

(* ---- get_tokens, lines 147-157: one iteration of the read loop ---- *)
Read ==
    /\ pc = "read"
    /\ \E r \in ReadResults(ObjAt(fds, fd), chan, ChunkSize, nshort < MaxShort) :
          /\ nreads' = nreads + 1
          /\ IF r <= 0
             THEN /\ pc' = "closefd"
                  /\ errno' = IF r < 0 THEN "EAGAIN" ELSE errno
                  /\ UNCHANGED <<tokens, chan, drained, nshort, hard>>
             ELSE /\ tokens' = tokens + r
                  /\ chan' = chan - r
                  /\ drained' = drained + r
                  /\ nshort' = IF r < Min(ChunkSize, chan) THEN nshort + 1 ELSE nshort
                  /\ pc' = IF KeepReading(tokens + r) THEN "read" ELSE "closefd"
                  /\ errno' = errno
    /\ UNCHANGED <<input, argv, env, rfd, wfd, fds, h, fd, mtokens, owed, pipefd,
                   exitcode>>
    /\ UNCHANGED <<watcherVars, envVars, nonblock, auxData,
                   mainWritten, watcherWritten, hard>>

(* ---- get_tokens, lines 158-162 ---- *)
CloseFd ==
    /\ pc = "closefd"
    /\ fds' = IF fd # rfd THEN Close(fds, fd) ELSE fds
    /\ IF tokens # 0
       THEN /\ pc' = "pipe" /\ mtokens' = mtokens
       ELSE /\ pc' = "rewrite" /\ mtokens' = tokens
    /\ UNCHANGED <<input, argv, env, rfd, wfd, h, tokens, fd, owed, errno, pipefd,
                   exitcode, nreads, drained>>
    /\ UNCHANGED <<watcherVars, envVars, chan, nonblock, auxData,
                   mainWritten, watcherWritten, nshort, hard>>


(* ---- put_tokens, lines 65-80 ---- *)
\* every write asks for a full chunk
WriteSize_full(t) == ChunkSize

\* the size of the next write, line 71
WriteSize(t) == IF t > ChunkSize THEN ChunkSize ELSE t

\* results of write(wfd, t, w): r bytes written, or -1 and an errno
WriteResults(obj, w, short) ==
    IF obj = "chanW"
    THEN {[r |-> n, errno |-> "none"] : n \in (IF short THEN 1..w ELSE {w})}
         \cup {[r |-> -1, errno |-> e] : e \in {"EAGAIN", "EINTR", "EPIPE"}}
    ELSE {[r |-> -1, errno |-> "EBADF"]}

\* the errno values after which line 74 retries
Transient(e) == e = "EAGAIN" \/ e = "EINTR"

\* tokens-- instead of tokens -= r
put_tokens_dec(t, out) ==
    IF out.r < 0
    THEN IF Transient(out.errno)
         THEN [tokens |-> t, done |-> FALSE, wrote |-> 0, failed |-> FALSE]
         ELSE [tokens |-> t, done |-> TRUE, wrote |-> 0, failed |-> TRUE]
    ELSE [tokens |-> t - 1, done |-> (t - 1 = 0), wrote |-> out.r,
          failed |-> FALSE]

\* one iteration of the loop of lines 70-79 on the owed count t with the
\* result out of the write: the count afterwards, whether put_tokens has
\* returned, the bytes that reached the write endpoint, and whether the
\* return was given up
put_tokens(t, out) ==
    IF out.r < 0
    THEN IF Transient(out.errno)
         THEN [tokens |-> t, done |-> FALSE, wrote |-> 0, failed |-> FALSE]
         ELSE [tokens |-> t, done |-> TRUE, wrote |-> 0, failed |-> TRUE]
    ELSE [tokens |-> t - out.r, done |-> (t - out.r = 0), wrote |-> out.r,
          failed |-> FALSE]

(* ---- create_child, lines 88-91: pipe, or the immediate return ---- *)
Pipe ==
    /\ pc = "pipe"
    /\ \/ /\ Cardinality(FreeFds(fds)) >= 2
          /\ LET a == LowestFree(fds)
                 b == LowestFree([fds EXCEPT ![a] = "auxR"])
             IN  /\ pipefd' = <<a, b>>
                 /\ fds' = [fds EXCEPT ![a] = "auxR", ![b] = "auxW"]
          /\ pc' = "fork"
          /\ UNCHANGED <<owed, errno>>
       \/ /\ errno' = "EMFILE"
          /\ owed' = tokens
          /\ pc' = "put"
          /\ UNCHANGED <<pipefd, fds>>
    /\ UNCHANGED <<input, argv, env, rfd, wfd, h, tokens, fd, mtokens, exitcode,
                   nreads, drained>>
    /\ UNCHANGED <<watcherVars, envVars, chan, nonblock, auxData,
                   mainWritten, watcherWritten, nshort, hard>>

\* the descriptor table the child of line 92 starts with
ChildTable(tab) == tab

(* ---- create_child, lines 92-98: fork, or the immediate return ---- *)
Fork ==
    /\ pc = "fork"
    /\ \/ /\ wpc' = "closew"
          /\ wfds' = ChildTable(fds)
          /\ wowed' = tokens
          /\ werrno' = errno
          /\ pc' = "closer"
          /\ UNCHANGED <<fds, owed, errno, wexit>>
       \/ /\ errno' = "EAGAIN"
          /\ fds' = Close(Close(fds, pipefd[1]), pipefd[2])
          /\ owed' = tokens
          /\ pc' = "put"
          /\ UNCHANGED watcherVars
    /\ UNCHANGED <<input, argv, env, rfd, wfd, h, tokens, fd, mtokens, pipefd,
                   exitcode, nreads, drained>>
    /\ UNCHANGED <<envVars, chan, nonblock, auxData,
                   mainWritten, watcherWritten, nshort, hard>>

\* the parent closes the write end instead
ParentCloses_write(pfd) == pfd[2]

\* the descriptor the parent closes at line 109
ParentCloses(pfd) == pfd[1]

(* ---- create_child, lines 109-110: the parent branch ---- *)
CloseR ==
    /\ pc = "closer"
    /\ fds' = Close(fds, ParentCloses(pipefd))
    /\ mtokens' = tokens
    /\ pc' = "rewrite"
    /\ UNCHANGED <<input, argv, env, rfd, wfd, h, tokens, fd, owed, errno, pipefd,
                   exitcode, nreads, drained>>
    /\ UNCHANGED <<watcherVars, envVars, chan, nonblock, auxData,
                   mainWritten, watcherWritten, nshort, hard>>

\* create_child returns tokens after the immediate return as well
DegradedCount_kept == tokens

\* what create_child returns after the immediate return, lines 90 and 97
DegradedCount == 0

(* ---- put_tokens called at lines 89 and 96: one write ---- *)
Put ==
    /\ pc = "put"
    /\ \E out \in WriteResults(ObjAt(fds, wfd), WriteSize(owed), nshort < MaxShort) :
          LET n == put_tokens(owed, out)
          IN  /\ owed' = n.tokens
              /\ errno' = IF out.r < 0 THEN out.errno ELSE errno
              /\ mainWritten' = mainWritten + n.wrote
              /\ hard' = IF n.failed THEN hard \cup {"main"} ELSE hard
              /\ chan' = chan + n.wrote
              /\ nshort' = IF out.r > 0 /\ out.r < WriteSize(owed)
                           THEN nshort + 1 ELSE nshort
              /\ IF n.done
                 THEN /\ mtokens' = DegradedCount /\ pc' = "rewrite"
                 ELSE /\ mtokens' = mtokens /\ pc' = "put"
    /\ UNCHANGED <<input, argv, env, rfd, wfd, fds, h, tokens, fd, pipefd,
                   exitcode, nreads, drained>>
    /\ UNCHANGED <<watcherVars, envVars, nonblock, auxData, watcherWritten>>


Aborted == 134   \* exit status of a failed assert (SIGABRT)

(* ---- main, lines 190-203: the assertions and the rewriting ---- *)
Rewrite ==
    /\ pc = "rewrite"
    /\ LET arg == argv[h[1]]
           k == h[2]
           s == snprintf_u(BufSize, mtokens + 1)
           len == (Len(arg) - k + 1) + 1
       IN  IF /\ mtokens < AssertLimit
              /\ MatchAt(arg, k, Marker)
              /\ s.p <= 3
              /\ len >= 4
           THEN /\ argv' = [argv EXCEPT ![h[1]] = Overwrite(arg, k, s.buf, s.p, len)]
                /\ pc' = "unsetenv"
                /\ exitcode' = exitcode
           ELSE /\ argv' = argv
                /\ pc' = "exit"
                /\ exitcode' = Aborted
    /\ UNCHANGED <<input, env, rfd, wfd, fds, h, tokens, fd, mtokens, owed, errno,
                   pipefd, nreads, drained>>
    /\ UNCHANGED <<watcherVars, envVars, chan, nonblock, auxData,
                   mainWritten, watcherWritten, nshort, hard>>

(* ---- main, line 205 ---- *)
Unsetenv ==
    /\ pc = "unsetenv"
    /\ env' = Absent
    /\ pc' = "close_rfd"
    /\ UNCHANGED <<input, argv, rfd, wfd, fds, h, tokens, fd, mtokens, owed, errno,
                   pipefd, exitcode, nreads, drained>>
    /\ UNCHANGED <<watcherVars, envVars, chan, nonblock, auxData,
                   mainWritten, watcherWritten, nshort, hard>>

(* ---- main, lines 206-207 ---- *)
CloseRfd ==
    /\ pc = "close_rfd"
    /\ fds' = IF rfd >= 0 THEN Close(fds, rfd) ELSE fds
    /\ pc' = "close_wfd"
    /\ UNCHANGED <<input, argv, env, rfd, wfd, h, tokens, fd, mtokens, owed, errno,
                   pipefd, exitcode, nreads, drained>>
    /\ UNCHANGED <<watcherVars, envVars, chan, nonblock, auxData,
                   mainWritten, watcherWritten, nshort, hard>>

\* main goes to execvp without closing wfd
CloseWfd_skip ==
    /\ pc = "close_wfd"
    /\ fds' = fds
    /\ pc' = "exec"
    /\ UNCHANGED <<input, argv, env, rfd, wfd, h, tokens, fd, mtokens, owed, errno,
                   pipefd, exitcode, nreads, drained>>
    /\ UNCHANGED <<watcherVars, envVars, chan, nonblock, auxData,
                   mainWritten, watcherWritten, nshort, hard>>

(* ---- main, lines 208-209 ---- *)
CloseWfd ==
    /\ pc = "close_wfd"
    /\ fds' = IF wfd >= 0 THEN Close(fds, wfd) ELSE fds
    /\ pc' = "exec"
    /\ UNCHANGED <<input, argv, env, rfd, wfd, h, tokens, fd, mtokens, owed, errno,
                   pipefd, exitcode, nreads, drained>>
    /\ UNCHANGED <<watcherVars, envVars, chan, nonblock, auxData,
                   mainWritten, watcherWritten, nshort, hard>>

(* ---- main, lines 210-211: the image is replaced, or error() exits ---- *)
Exec ==
    /\ pc = "exec"
    /\ \/ /\ pc' = "target"
          /\ holders' = Refs(fds, "auxW")
          /\ UNCHANGED <<exitcode, errno>>
       \/ /\ pc' = "exit"
          /\ exitcode' = EX_OSERR
          /\ errno' = "ENOENT"
          /\ holders' = holders
    /\ UNCHANGED <<input, argv, env, rfd, wfd, fds, h, tokens, fd, mtokens, owed,
                   pipefd, nreads, drained>>
    /\ UNCHANGED <<watcherVars, forks, auxWrites, clientOps, chan, nonblock, auxData,
                   mainWritten, watcherWritten, nshort, hard>>

\* the Watcher keeps its copy of the auxiliary write end
WCloseW_keep ==
    /\ wpc = "closew"
    /\ wfds' = wfds
    /\ wpc' = "wait"
    /\ UNCHANGED <<input, mainVars, wowed, werrno, wexit, envVars, chan, nonblock,
                   auxData, mainWritten, watcherWritten, nshort, hard>>

(* ---- the Watcher: create_child, line 102 ---- *)
WCloseW ==
    /\ wpc = "closew"
    /\ wfds' = Close(wfds, pipefd[2])
    /\ wpc' = "wait"
    /\ UNCHANGED <<input, mainVars, wowed, werrno, wexit, envVars, chan, nonblock,
                   auxData, mainWritten, watcherWritten, nshort, hard>>

\* results of the blocking read(pipefd[0], &d, 1): a data byte, end-of-stream
\* once no write reference is left, or -1 (EINTR) while it would block
WaitResults == 
    IF auxData > 0 THEN {1}
    ELSE IF AuxWriters = 0 THEN {0}
    ELSE {-1}

\* the loop also reads again at end-of-stream
ReadAgain_eof(r) == r <= 0

\* the loop condition of line 103
ReadAgain(r) == r < 0

(* ---- the Watcher: create_child, lines 103-104, one read ---- *)
WReadWith(r) ==
    /\ wpc = "wait"
    /\ r \in WaitResults
    /\ auxData' = IF r > 0 THEN auxData - r ELSE auxData
    /\ werrno' = IF r < 0 THEN "EINTR" ELSE werrno
    /\ wpc' = IF ReadAgain(r) THEN "wait" ELSE "put"
    /\ UNCHANGED <<input, mainVars, wfds, wowed, wexit, envVars, chan, nonblock,
                   mainWritten, watcherWritten, nshort, hard>>

WRead == \E r \in {-1, 0, 1} : WReadWith(r)

(* ---- the Watcher: put_tokens called at line 105, one write ---- *)
WPutWith(out) ==
    /\ wpc = "put"
    /\ out \in WriteResults(ObjAt(wfds, wfd), WriteSize(wowed), nshort < MaxShort)
    /\ LET n == put_tokens(wowed, out)
       IN  /\ wowed' = n.tokens
           /\ werrno' = IF out.r < 0 THEN out.errno ELSE werrno
           /\ watcherWritten' = watcherWritten + n.wrote
           /\ hard' = IF n.failed THEN hard \cup {"watcher"} ELSE hard
           /\ chan' = chan + n.wrote
           /\ nshort' = IF out.r > 0 /\ out.r < WriteSize(wowed)
                        THEN nshort + 1 ELSE nshort
           /\ wpc' = IF n.done THEN "_exit" ELSE "put"
    /\ UNCHANGED <<input, mainVars, wfds, wexit, envVars, nonblock, auxData,
                   mainWritten>>

AllWriteResults ==
    {[r |-> n, errno |-> "none"] : n \in 1..ChunkSize}
    \cup {[r |-> -1, errno |-> e] : e \in {"EAGAIN", "EINTR", "EPIPE", "EBADF"}}

WPut == \E out \in AllWriteResults : WPutWith(out)

(* ---- the Watcher: create_child, line 106 ---- *)
WExit ==
    /\ wpc = "_exit"
    /\ wexit' = EX_OK
    /\ wpc' = "exited"
    /\ UNCHANGED <<input, mainVars, wfds, wowed, werrno, envVars, chan, nonblock,
                   auxData, mainWritten, watcherWritten, nshort, hard>>

(* ---- the environment: the target command's process tree ---- *)
TargetFork ==
    /\ pc = "target" /\ holders > 0 /\ forks < MaxForks
    /\ holders' = holders + 1
    /\ forks' = forks + 1
    /\ UNCHANGED <<input, mainVars, watcherVars, auxWrites, clientOps, chan, nonblock,
                   auxData, mainWritten, watcherWritten, nshort, hard>>

TargetRelease ==
    /\ pc = "target" /\ holders > 0
    /\ holders' = holders - 1
    /\ UNCHANGED <<input, mainVars, watcherVars, forks, auxWrites, clientOps, chan,
                   nonblock, auxData, mainWritten, watcherWritten, nshort, hard>>

TargetWriteAux ==
    /\ pc = "target" /\ holders > 0 /\ auxWrites < MaxAuxWrites
    /\ WatcherAlive
    /\ auxData' = auxData + 1
    /\ auxWrites' = auxWrites + 1
    /\ UNCHANGED <<input, mainVars, watcherVars, holders, forks, clientOps, chan,
                   nonblock, mainWritten, watcherWritten, nshort, hard>>

(* ---- the environment: other clients of the channel ---- *)
ClientPut ==
    /\ input.fds[3] = "chanR" /\ clientOps < MaxClientOps
    /\ chan' = chan + 1
    /\ clientOps' = clientOps + 1
    /\ UNCHANGED <<input, mainVars, watcherVars, holders, forks, auxWrites, nonblock,
                   auxData, mainWritten, watcherWritten, nshort, hard>>

ClientGet ==
    /\ input.fds[3] = "chanR" /\ clientOps < MaxClientOps /\ chan > 0
    /\ chan' = chan - 1
    /\ clientOps' = clientOps + 1
    /\ UNCHANGED <<input, mainVars, watcherVars, holders, forks, auxWrites, nonblock,
                   auxData, mainWritten, watcherWritten, nshort, hard>>

Next ==
    \/ CheckArgs \/ ParseEnv \/ Fcntl \/ Open \/ Read \/ CloseFd
    \/ Pipe \/ Fork \/ CloseR \/ Put
    \/ Rewrite \/ Unsetenv \/ CloseRfd \/ CloseWfd \/ Exec
    \/ WCloseW \/ WRead \/ WPut \/ WExit
    \/ TargetFork \/ TargetRelease \/ TargetWriteAux
    \/ ClientPut \/ ClientGet

Spec == Init /\ [][Next]_vars

\* get_tokens' drain alone, with the channel loaded up to and beyond the ceiling
DrainNext ==
    \/ CheckArgs \/ ParseEnv \/ Fcntl \/ Open \/ Read \/ CloseFd
    \/ ClientPut \/ ClientGet

DrainSpec == DrainInit /\ [][DrainNext]_vars

\* the launching process alone, from the check of its arguments to execvp,
\* with the channel loaded up to and beyond the ceiling
LaunchNext ==
    \/ CheckArgs \/ ParseEnv \/ Fcntl \/ Open \/ Read \/ CloseFd
    \/ Pipe \/ Fork \/ CloseR \/ Put
    \/ Rewrite \/ Unsetenv \/ CloseRfd \/ CloseWfd \/ Exec

LaunchSpec == LaunchInit /\ [][LaunchNext]_vars

\* the Watcher is a process of its own: it is scheduled, and an interrupted
\* or would-block condition of its reads and writes does not last forever
WReadDone == \E r \in {0, 1} : WReadWith(r)
WPutProgress ==
    \E out \in AllWriteResults :
        (out.r > 0 \/ ~Transient(out.errno)) /\ WPutWith(out)
WatcherProgress == WCloseW \/ WReadDone \/ WPutProgress \/ WExit

FairSpec == Spec /\ WF_vars(WatcherProgress)


(***************************************************************************)
(* Properties                                                              *)
(***************************************************************************)

\* C2: the bytes written to the write endpoint by the launching process and
\* by the Watcher together never exceed the bytes the drain removed, and
\* the two return paths exclude each other: the launching process writes
\* only when no Watcher exists, the Watcher only when the launching
\* process wrote nothing.
NoFabrication ==
    /\ mainWritten + watcherWritten <= drained
    /\ ~(mainWritten > 0 /\ watcherWritten > 0)
    /\ (wpc # "none" => mainWritten = 0)

NoFabricationWitness ==
    /\ wpc = "exited" /\ watcherWritten = drained /\ drained > ChunkSize
    /\ mainWritten = 0

\* C4: with t <= 500 bytes queued and no other client acting, the read
\* loop ends having removed exactly min(t, 500) bytes, and the other
\* bytes of the channel are still queued.
DrainExact ==
    (pc = "closefd" /\ clientOps = 0 /\ input.load <= TokenCeiling) =>
        /\ tokens = Min(input.load, TokenCeiling)
        /\ drained = tokens
        /\ chan = input.load - tokens

DrainExactWitness ==
    /\ pc = "closefd" /\ clientOps = 0
    /\ input.load = TokenCeiling /\ tokens = TokenCeiling /\ chan = 0

\* C5 as claimed: the count accumulated by the read loop never exceeds 500.
DrainAtMostCeiling == tokens <= TokenCeiling

\* C5 as amended: no read is issued once the count has reached 500, so
\* the count never exceeds 500 + 8 - 1 = 507.
DrainWithinLastChunk ==
    /\ tokens <= TokenCeiling + ChunkSize - 1
    /\ (pc = "read" => tokens < TokenCeiling)

DrainWithinLastChunkWitness ==
    /\ pc = "closefd" /\ tokens = TokenCeiling + ChunkSize - 1

\* C6: every read of the drain is issued on a non-blocking reference (the
\* inherited descriptor when it is non-blocking, else the reference opened
\* for the purpose), and the loop makes progress: every read but the last
\* adds at least one token, so fewer than 500 reads precede any read and
\* at most 500 reads are issued.
DrainNeverBlocks ==
    /\ (pc = "read" =>
          /\ IsNonblock(ObjAt(fds, fd))
          /\ (fd = rfd \/ ObjAt(fds, fd) = "reopen")
          /\ nreads <= tokens /\ tokens < TokenCeiling)
    /\ nreads <= TokenCeiling
    /\ nreads <= drained + 1

DrainNeverBlocksWitness ==
    /\ pc = "closefd" /\ ~nonblock /\ fd # rfd /\ clientOps > 0
    /\ tokens >= TokenCeiling /\ nreads > 2

\* C7: without a command, or without ### in an argument after the command
\* name, the program ends with the usage status, and until the check of
\* the arguments has passed nothing was read, no pipe or Watcher was made,
\* nothing was written, and MAKEFLAGS and the descriptors are untouched.
HasMarker(a) ==
    \E k \in 1..(Len(a) - MarkerLen + 1) : \A j \in 0..(MarkerLen - 1) : a[k + j] = "#"
UsageCase == Len(input.argv) < 2 \/ ~(\E i \in 3..Len(input.argv) : HasMarker(input.argv[i]))
UsageExit == pc = "exit" /\ exitcode = EX_USAGE
Untouched ==
    /\ nreads = 0 /\ drained = 0 /\ pipefd = <<-1, -1>> /\ wpc = "none"
    /\ mainWritten = 0 /\ watcherWritten = 0
    /\ env = input.env /\ fds = input.fds /\ argv = input.argv
    /\ rfd = -1 /\ wfd = -1
UsageNoSideEffects ==
    /\ (UsageCase /\ pc # "main") => UsageExit
    /\ UsageExit => UsageCase
    /\ (pc = "main" \/ UsageExit) => Untouched

UsageNoSideEffectsWitness ==
    /\ UsageExit /\ Len(input.argv) >= 3 /\ HasMarker(input.argv[2])
    /\ input.env = Present(AuthOpt \o <<"3", ",", "4">>)
    /\ input.fds[3] = "chanR" /\ input.load > 0


\* the argument vector after the first ### of the first argument after the
\* command name that has one was replaced by txt
FirstMarkerArg ==
    CHOOSE i \in 3..Len(input.argv) :
        /\ HasMarker(input.argv[i])
        /\ \A j \in 3..(i - 1) : ~HasMarker(input.argv[j])
FirstMarkerPos(a) ==
    CHOOSE k \in 1..Len(a) :
        /\ SubSeq(a, k, k + MarkerLen - 1) = Marker
        /\ \A j \in 1..(k - 1) : SubSeq(a, j, j + MarkerLen - 1) # Marker
Substituted(txt) ==
    LET a == input.argv[FirstMarkerArg]
        k == FirstMarkerPos(a)
    IN  [input.argv EXCEPT ![FirstMarkerArg] =
            SubSeq(a, 1, k - 1) \o txt \o SubSeq(a, k + MarkerLen, Len(a))]
Launching == {"unsetenv", "close_rfd", "close_wfd", "exec", "target"}
LaunchReached == pc \in Launching \/ (pc = "exit" /\ exitcode = EX_OSERR)

\* C8: when MAKEFLAGS is absent, has neither option, or its pair does not
\* parse as two integers, nothing is read, no pipe or Watcher is made,
\* nothing is written, the marker becomes 1, and the program ends only by
\* the usage check of its arguments or at execvp.
NoChannelEnvs ==
    { Absent,
      Present(<<"-", "j", "4">>),
      Present(AuthOpt \o <<"a", "b", "c">>),
      Present(AuthOpt \o <<"3">>),
      Present(AuthOpt \o <<"3", ",", "x">>) }
NoChannelZeroTokens ==
    input.env \in NoChannelEnvs =>
        /\ nreads = 0 /\ drained = 0 /\ tokens = 0 /\ mtokens = 0
        /\ pipefd = <<-1, -1>> /\ wpc = "none"
        /\ mainWritten = 0 /\ watcherWritten = 0
        /\ pc \in {"main", "parse", "rewrite", "exit"} \cup Launching
        /\ (LaunchReached => argv = Substituted(<<"1">>))
        /\ (pc = "exit" => exitcode \in {EX_USAGE, EX_OSERR})
        /\ (UsageExit => UsageCase)

NoChannelZeroTokensWitness ==
    /\ input.env = Present(AuthOpt \o <<"3", ",", "x">>)
    /\ input.fds[3] = "chanR" /\ input.load > 0 /\ chan > 0
    /\ pc = "target"
    /\ argv[3] = <<"-", "j", "1">>

\* the launching process is past create_child and made no Watcher
Degraded ==
    /\ drained > 0 /\ wpc = "none"
    /\ pc \in {"rewrite", "exit"} \cup Launching

\* C9 as claimed: after a pipe or fork failure the launching process has
\* written all t drained tokens back before the launch, no Watcher exists,
\* the count given to the rewriter is 0 and the launch goes on.
DegradedReturnsAll ==
    Degraded =>
        /\ mainWritten = drained
        /\ mtokens = 0 /\ watcherWritten = 0
        /\ (LaunchReached => argv = Substituted(<<"1">>))
        /\ (pc = "exit" => exitcode = EX_OSERR)

\* C9 as amended: the same, but put_tokens gives the return up at the
\* first write that fails with another error than EAGAIN or EINTR, and the
\* tokens not yet written are then dropped.
DegradedReturn ==
    Degraded =>
        /\ IF "main" \in hard THEN mainWritten < drained ELSE mainWritten = drained
        /\ mtokens = 0 /\ watcherWritten = 0
        /\ (LaunchReached => argv = Substituted(<<"1">>))
        /\ (pc = "exit" => exitcode = EX_OSERR)

DegradedReturnWitness ==
    /\ Degraded /\ pc = "target" /\ drained > ChunkSize
    /\ mainWritten = drained /\ pipefd = <<-1, -1>>
    /\ argv = Substituted(<<"1">>)

LaunchFailed == pc = "exit" /\ exitcode = EX_OSERR /\ drained > 0

\* C10 as claimed: once execvp has failed after tokens were drained, no
\* byte is written to the write endpoint any more, by either process.
LaunchFailureLosesTokens ==
    [][LaunchFailed =>
         (mainWritten' = mainWritten /\ watcherWritten' = watcherWritten)]_vars

\* C10 as amended: once execvp has failed after tokens were drained, the
\* launching process has exited with the OS-error status and writes nothing
\* more; its exit released the auxiliary write end, so a Watcher, if one
\* was made, meets end-of-stream at its read and returns the tokens (all of
\* them unless a write fails for good); without a Watcher they were
\* returned before the launch.
LaunchFailureReturns ==
    /\ [](LaunchFailed =>
            /\ (wpc = "none" =>
                  IF "main" \in hard THEN mainWritten < drained
                  ELSE mainWritten = drained)
            /\ (wpc # "none" => mainWritten = 0 /\ holders = 0 /\ auxData = 0)
            /\ (wpc = "wait" => WaitResults = {0})
            /\ (wpc = "exited" =>
                  IF "watcher" \in hard THEN watcherWritten < drained
                  ELSE watcherWritten = drained))
    /\ [][LaunchFailed => mainWritten' = mainWritten]_vars

LaunchFailureReturnsWitness ==
    /\ LaunchFailed /\ wpc = "exited" /\ wexit = EX_OK
    /\ watcherWritten = drained /\ mainWritten = 0

\* C3: the Watcher starts the return, and writes to the write endpoint,
\* only when no process holds the auxiliary write end any more.
ReturnAfterRelease ==
    /\ (watcherWritten > 0 => AuxWriters = 0)
    /\ (wpc \in {"put", "_exit", "exited"} => AuxWriters = 0)

\* C1: if the auxiliary write end is released by all its holders, a Watcher
\* that was made ends with the success status, having written exactly the
\* drained count to the write endpoint unless a write failed for good.
WatcherReturned ==
    /\ wpc = "exited" /\ wexit = EX_OK
    /\ ("watcher" \in hard \/ watcherWritten = drained)
DeferredReturnComplete ==
    ([]<>(AuxWriters = 0)) => ((wpc # "none") ~> WatcherReturned)

DeferredReturnCompleteWitness ==
    /\ WatcherReturned /\ "watcher" \notin hard /\ drained > ChunkSize
    /\ pc = "target" /\ forks > 0 /\ auxWrites = 0


\* the decimal text of a number below 1000, digit by digit
ExpectedText(n) ==
    IF n < 10 THEN <<DigitChars[n + 1]>>
    ELSE IF n < 100 THEN <<DigitChars[(n \div 10) + 1], DigitChars[(n % 10) + 1]>>
    ELSE <<DigitChars[(n \div 100) + 1], DigitChars[((n \div 10) % 10) + 1],
           DigitChars[(n % 10) + 1]>>

AtExec == pc \in {"exec", "target"} \/ (pc = "exit" /\ exitcode = EX_OSERR)

\* the pair parse_env stored names the channel's two descriptors
Advertised ==
    /\ ObjAt(input.fds, rfd) = "chanR"
    /\ ObjAt(input.fds, wfd) = "chanW"

\* C12 as claimed: at execvp, in every run, MAKEFLAGS is absent and the
\* launching process holds no handle to the channel's read or write end.
LaunchHoldsNoChannelEnd ==
    AtExec =>
        /\ env = Absent
        /\ Refs(fds, "chanR") = 0 /\ Refs(fds, "chanW") = 0
        /\ Refs(fds, "reopen") = 0

\* C12 as amended: at execvp, in every run, MAKEFLAGS is absent and the
\* descriptors rfd and wfd, as far as parse_env stored them, and the
\* reference opened for the drain are closed in the launching process; when
\* the stored pair names the channel's two descriptors the launching
\* process holds neither end and the tool's only handle to the write end
\* is the Watcher's copy.
LaunchClosesAdvertised ==
    AtExec =>
        /\ env = Absent
        /\ (rfd >= 0 => ObjAt(fds, rfd) = "closed")
        /\ (wfd >= 0 => ObjAt(fds, wfd) = "closed")
        /\ Refs(fds, "reopen") = 0
        /\ (Advertised =>
              /\ Refs(fds, "chanR") = 0 /\ Refs(fds, "chanW") = 0
              /\ (WatcherAlive =>
                    Refs(wfds, "chanW") = 1 /\ ObjAt(wfds, wfd) = "chanW"))

LaunchClosesAdvertisedWitness ==
    /\ pc = "target" /\ Advertised /\ WatcherAlive /\ ~nonblock
    /\ input.env.set /\ env = Absent
    /\ fds[3] = "closed" /\ fds[4] = "closed" /\ wfds[4] = "chanW"


\* C13: when a Watcher was made, the launching process at execvp holds the
\* auxiliary write end and not the read end, and the Watcher, from its
\* first read on, holds the read end and no write end.
TargetInheritsAuxWrite ==
    /\ (wpc # "none" /\ pc = "exec") =>
          Refs(fds, "auxW") = 1 /\ Refs(fds, "auxR") = 0
    /\ (wpc \in {"wait", "put", "_exit"} =>
          Refs(wfds, "auxW") = 0 /\ Refs(wfds, "auxR") = 1)

\* the parent branch of create_child has returned and main has not yet
\* closed wfd
ParentReturned ==
    wpc # "none" /\ pc \in {"rewrite", "unsetenv", "close_rfd", "close_wfd"}

\* C14 as claimed: back from create_child, the parent holds no reference to
\* the auxiliary write end.
ParentReleasedWriteEnd == ParentReturned => Refs(fds, "auxW") = 0

\* C14 as amended: back from create_child, the parent has closed its copy
\* of the auxiliary read end and still holds the write end, pipefd[1].
ParentKeepsWriteEnd ==
    ParentReturned =>
        /\ Refs(fds, "auxR") = 0
        /\ Refs(fds, "auxW") = 1
        /\ ObjAt(fds, pipefd[1]) = "closed"
        /\ ObjAt(fds, pipefd[2]) = "auxW"

ParentKeepsWriteEndWitness ==
    /\ pc = "rewrite" /\ wpc = "wait" /\ mtokens = drained /\ drained > 0
    /\ ObjAt(fds, pipefd[2]) = "auxW" /\ ObjAt(fds, pipefd[1]) = "closed"
    /\ AuxWriters = 1


\* C15: no step changes O_NONBLOCK of the inherited read end's file
\* description; a blocking read end is read only through the reference
\* opened at line 140, a descriptor the tool was not started with, and
\* that reference exists only during the read loop: it is closed when
\* get_tokens goes on to create_child or returns, and the Watcher never
\* has it.
InheritedModeUntouched ==
    /\ [][nonblock' = nonblock]_vars
    /\ [](/\ (pc = "read" /\ ~nonblock => ObjAt(fds, fd) = "reopen")
          /\ (pc = "read" /\ nonblock => fd = rfd /\ Refs(fds, "reopen") = 0)
          /\ (ObjAt(fds, fd) = "reopen" => fd # rfd /\ input.fds[fd] = "closed")
          /\ Refs(fds, "reopen") <= 1
          /\ (pc \notin {"read", "closefd"} => Refs(fds, "reopen") = 0)
          /\ Refs(wfds, "reopen") = 0
          /\ fds[3] \in {input.fds[3], "closed"})

InheritedModeUntouchedWitness ==
    /\ pc = "pipe" /\ ~nonblock /\ drained > 0
    /\ fd = 5 /\ fds[5] = "closed" /\ fds[3] = "chanR"


\* C16: a write of put_tokens transfers at most 8 bytes and at most the
\* owed count, and the owed count goes down by exactly the bytes written;
\* after EAGAIN or EINTR the loop goes on with the owed count unchanged;
\* after another error put_tokens returns at once and the owed rest is never
\* written; the Watcher then, as after a complete return, exits with EX_OK.
WriteDiscipline ==
    /\ [][LET d == watcherWritten' - watcherWritten
              m == mainWritten' - mainWritten
              failedNow == "watcher" \in hard' /\ "watcher" \notin hard
          IN  /\ (wpc # "put" => d = 0)
              /\ (pc # "put" => m = 0)
              /\ (pc = "put" => 0 <= m /\ m <= ChunkSize /\ m <= owed /\ owed' = owed - m)
              /\ (wpc = "put" =>
                    /\ 0 <= d /\ d <= ChunkSize /\ d <= wowed
                    /\ wowed' = wowed - d
                    /\ (failedNow => d = 0 /\ wpc' = "_exit" /\ ~Transient(werrno'))
                    /\ (wpc' = "_exit" <=> (failedNow \/ (d > 0 /\ wowed' = 0)))
                    /\ (werrno' # werrno /\ Transient(werrno') => wpc' = "put" /\ d = 0))
         ]_vars
    /\ [](/\ (wpc # "none" => watcherWritten + wowed = drained)
          /\ (wpc = "exited" => wexit = EX_OK)
          /\ ("watcher" \in hard => wpc \in {"_exit", "exited"} /\ wowed > 0)
          /\ (wpc \in {"_exit", "exited"} /\ "watcher" \notin hard => wowed = 0))

WriteDisciplineWitness ==
    /\ wpc = "exited" /\ wexit = EX_OK /\ "watcher" \in hard
    /\ watcherWritten > ChunkSize /\ watcherWritten % ChunkSize # 0
    /\ wowed > 0 /\ werrno = "EPIPE"


\* C17: no assertion of main fails: whatever the channel held and however
\* the reads were chunked, the count main gets is below 999 (it is at most
\* 507), the text of count + 1 has 1 to 3 characters, h points at ###
\* followed by at least the terminator, and no argument gets longer.
AssertionsHold ==
    /\ exitcode # Aborted
    /\ tokens < AssertLimit /\ mtokens < AssertLimit
    /\ mtokens <= TokenCeiling + ChunkSize - 1
    /\ (pc = "rewrite" =>
          /\ snprintf_u(BufSize, mtokens + 1).p \in 1..3
          /\ Len(ExpectedText(mtokens + 1)) <= MarkerLen
          /\ SubSeq(argv[h[1]], h[2], h[2] + MarkerLen - 1) = Marker
          /\ (Len(argv[h[1]]) - h[2] + 1) + 1 >= 4)
    /\ Len(argv) = Len(input.argv)
    /\ \A i \in 1..Len(argv) : Len(argv[i]) <= Len(input.argv[i])

AssertionsHoldWitness ==
    /\ pc = "unsetenv" /\ input.load = AssertLimit + ChunkSize
    /\ mtokens = TokenCeiling + ChunkSize - 1
    /\ Len(argv[h[1]]) = Len(input.argv[h[1]])


\* C18: when parse_env fails, also after storing the first number of the
\* pair, main closes no descriptor: at execvp the descriptor table is the
\* one the tool was started with.
NoChannelClosesNothing ==
    (input.env \in NoChannelEnvs /\ AtExec) => fds = input.fds

====
